---- MODULE Spec2Model ----
(***************************************************************************)
(* Model of the forge-cli cross-chain bridge listener (src/script.py):     *)
(* the log decoder BridgeEventScanner._parse_log, the range scanner        *)
(* BridgeEventScanner.scan_blocks, and the polling loop of main() with its *)
(* scan cursor last_processed_block.                                       *)
(***************************************************************************)
EXTENDS Integers, Sequences, FiniteSets, TLC

\* Config.CONFIRMATIONS_REQUIRED and Config.POLL_INTERVAL_SECONDS (defaults).
CONFIRMATIONS_REQUIRED == 6
POLL_INTERVAL_SECONDS == 15

\* Highest chain head the ledger reports.
MaxHead == 8
\* Length in bytes of a transaction hash.
HashLen == 2
\* How many times EventSink.process (process_event) raises in one run.
MaxRaises == 1

Min(a, b) == IF a < b THEN a ELSE b

(***************************************************************************)
(* Bytes.  A byte string is a sequence of 0..255; a hex string is a        *)
(* sequence of hex digits 0..15.                                           *)
(***************************************************************************)

\* HexBytes.hex(): two hex digits per byte, high digit first.
Hex(bytes) ==
    [i \in 1..(2 * Len(bytes)) |->
        IF i % 2 = 1 THEN bytes[(i + 1) \div 2] \div 16
                     ELSE bytes[i \div 2] % 16]

\* Python s[-40:]: the last 40 characters, or all of s when it is shorter.
Last40(s) == IF Len(s) <= 40 THEN s ELSE SubSeq(s, Len(s) - 39, Len(s))

\* Python s[a:b] for 0 <= a <= b: positions a .. b-1, cut at the end of s.
Slice(s, a, b) == SubSeq(s, a + 1, Min(b, Len(s)))

\* Web3.to_checksum_address('0x' + hexstr): the address named by the hex
\* digits.  An Address is represented by its 20 bytes (the checksum casing is
\* a function of those bytes).
ToChecksumAddress(hexstr) ==
    [i \in 1..(Len(hexstr) \div 2) |-> 16 * hexstr[2 * i - 1] + hexstr[2 * i]]

\* Web3.to_int(hexstr=...): int(hexstr, 16).
RECURSIVE HexToInt(_)
HexToInt(hexstr) ==
    IF hexstr = <<>> THEN 0
    ELSE 16 * HexToInt(SubSeq(hexstr, 1, Len(hexstr) - 1)) + hexstr[Len(hexstr)]

\* Web3.to_int(primitive=bytes): big_endian_to_int; the empty string gives 0.
RECURSIVE BigEndianToInt(_)
BigEndianToInt(bytes) ==
    IF bytes = <<>> THEN 0
    ELSE 256 * BigEndianToInt(SubSeq(bytes, 1, Len(bytes) - 1)) + bytes[Len(bytes)]

(***************************************************************************)
(* BridgeEventScanner._parse_log.  A raw log is                            *)
(*   [topics, data, transactionHash, blockNumber]                          *)
(* with topics a sequence of 32-byte strings.  The result is               *)
(*   [raised |-> "none", value |-> <<event>>]   or                         *)
(*   [raised |-> "IndexError", value |-> <<>>]                             *)
(* (log['topics'][k] on a log with too few topics).  TLA+ sequences are    *)
(* 1-based: Python topics[k] is topics[k + 1].                             *)
(***************************************************************************)
ParseLog_swapped(log) ==
    IF Len(log.topics) < 4
    THEN [raised |-> "IndexError", value |-> <<>>]
    ELSE [raised |-> "none",
          value  |-> << [token              |-> ToChecksumAddress(Last40(Hex(log.topics[2]))),
                         sender             |-> ToChecksumAddress(Last40(Hex(log.topics[3]))),
                         nonce              |-> HexToInt(Hex(log.topics[4])),
                         amount             |-> BigEndianToInt(Slice(log.data, 32, 64)),
                         destinationChainId |-> BigEndianToInt(Slice(log.data, 0, 32)),
                         transactionHash    |-> Hex(log.transactionHash),
                         blockNumber        |-> log.blockNumber] >>]

ParseLog(log) ==
    IF Len(log.topics) < 4
    THEN [raised |-> "IndexError", value |-> <<>>]
    ELSE [raised |-> "none",
          value  |-> << [token              |-> ToChecksumAddress(Last40(Hex(log.topics[2]))),
                         sender             |-> ToChecksumAddress(Last40(Hex(log.topics[3]))),
                         nonce              |-> HexToInt(Hex(log.topics[4])),
                         amount             |-> BigEndianToInt(Slice(log.data, 0, 32)),
                         destinationChainId |-> BigEndianToInt(Slice(log.data, 32, 64)),
                         transactionHash    |-> Hex(log.transactionHash),
                         blockNumber        |-> log.blockNumber] >>]

(***************************************************************************)
(* BridgeEventScanner.scan_blocks(from_block, to_block), given the         *)
(* ledger's answer `answer` to get_logs:                                   *)
(*   [kind |-> "logs" | "BlockNotFound" | "Exception", logs |-> <<...>>]   *)
(* Result: the returned list, the get_logs calls made, and the exception   *)
(* that leaves scan_blocks ("none": every exception is caught inside).  An *)
(* exception raised by _parse_log inside the list comprehension is caught  *)
(* by the `except Exception` of scan_blocks, which returns [].             *)
(***************************************************************************)
ParseAll(logs) == [i \in 1..Len(logs) |-> ParseLog(logs[i]).value[1]]

ScanBlocks_noguard(from_block, to_block, answer) ==
    LET q == [fromBlock |-> from_block, toBlock |-> to_block] IN
    IF answer.kind # "logs"
    THEN [events |-> <<>>, calls |-> <<q>>, raised |-> "none"]
    ELSE IF \E i \in 1..Len(answer.logs) : ParseLog(answer.logs[i]).raised # "none"
    THEN [events |-> <<>>, calls |-> <<q>>, raised |-> "none"]
    ELSE [events |-> ParseAll(answer.logs), calls |-> <<q>>, raised |-> "none"]

ScanBlocks_onlyBlockNotFound(from_block, to_block, answer) ==
    LET q == [fromBlock |-> from_block, toBlock |-> to_block] IN
    IF from_block > to_block
    THEN [events |-> <<>>, calls |-> <<>>, raised |-> "none"]
    ELSE IF answer.kind = "BlockNotFound"
    THEN [events |-> <<>>, calls |-> <<q>>, raised |-> "none"]
    ELSE IF answer.kind = "Exception"
    THEN [events |-> <<>>, calls |-> <<q>>, raised |-> "Exception"]
    ELSE IF \E i \in 1..Len(answer.logs) : ParseLog(answer.logs[i]).raised # "none"
    THEN [events |-> <<>>, calls |-> <<q>>, raised |-> "IndexError"]
    ELSE [events |-> ParseAll(answer.logs), calls |-> <<q>>, raised |-> "none"]

ScanBlocks(from_block, to_block, answer) ==
    LET q == [fromBlock |-> from_block, toBlock |-> to_block] IN
    IF from_block > to_block
    THEN [events |-> <<>>, calls |-> <<>>, raised |-> "none"]
    ELSE IF answer.kind = "BlockNotFound"
    THEN [events |-> <<>>, calls |-> <<q>>, raised |-> "none"]
    ELSE IF answer.kind = "Exception"
    THEN [events |-> <<>>, calls |-> <<q>>, raised |-> "none"]
    ELSE IF answer.logs = <<>>
    THEN [events |-> <<>>, calls |-> <<q>>, raised |-> "none"]
    ELSE IF \E i \in 1..Len(answer.logs) : ParseLog(answer.logs[i]).raised # "none"
    THEN [events |-> <<>>, calls |-> <<q>>, raised |-> "none"]
    ELSE [events |-> ParseAll(answer.logs), calls |-> <<q>>, raised |-> "none"]

(***************************************************************************)
(* The ledger.  The TokensLocked event of EVENT_ABI is laid out by the     *)
(* chain as four topics (signature hash, token, sender, nonce; addresses   *)
(* right-aligned in their 32-byte slot) and 64 bytes of data (amount,      *)
(* destinationChainId, big-endian).                                        *)
(***************************************************************************)

\* n as a big-endian string of len bytes.
RECURSIVE IntToBytes(_, _)
IntToBytes(n, len) ==
    IF len = 0 THEN <<>> ELSE Append(IntToBytes(n \div 256, len - 1), n % 256)

PadLeft32(bytes) == [i \in 1..(32 - Len(bytes)) |-> 0] \o bytes

\* keccak("TokensLocked(address,address,uint256,uint256,uint256)"): a fixed
\* 32-byte value, used only as the query filter.
EventTopic == [i \in 1..32 |-> 221]

MakeLog(token, sender, nonce, amount, chain, txhash, height) ==
    [topics          |-> << EventTopic, PadLeft32(token), PadLeft32(sender),
                            IntToBytes(nonce, 32) >>,
     data            |-> IntToBytes(amount, 32) \o IntToBytes(chain, 32),
     transactionHash |-> txhash,
     blockNumber     |-> height]

\* Malformed logs: only the first k topics; only the first n bytes of data.
CutTopics(log, k) == [log EXCEPT !.topics = SubSeq(log.topics, 1, k)]
CutData(log, n) == [log EXCEPT !.data = SubSeq(log.data, 1, n)]

TokenA == [i \in 1..20 |-> i]
TokenB == [i \in 1..20 |-> 255 - i]
SenderA == [i \in 1..20 |-> 16 * i]
SenderB == [i \in 1..20 |-> IF i = 1 THEN 0 ELSE 7 * i]

\* The i-th log of the block at height h.
TxHash(h, i) == IntToBytes(16 * h + i, HashLen)
ChainLog(h, i) ==
    MakeLog(IF i % 2 = 1 THEN TokenA ELSE TokenB,
            IF h % 2 = 1 THEN SenderA ELSE SenderB,
            10 * h + i, 1000000 + h, i, TxHash(h, i), h)

\* Three ledgers.  Block 0 holds one log, block 1 three, block 3 two, every
\* block from 4 on one, the others none.  In ledger 2 the second log of
\* block 1 has three topics; in ledger 3 it has 32 bytes of data.
LedgerIds == 1..3
LedgerHeights == 0..MaxHead
LogCount(h) ==
    IF h = 0 THEN 1
    ELSE IF h = 1 THEN 3
    ELSE IF h = 3 THEN 2
    ELSE IF h >= 4 THEN 1
    ELSE 0
LogsAt(id, h) ==
    [i \in 1..LogCount(h) |->
        IF h = 1 /\ i = 2 /\ id = 2 THEN CutTopics(ChainLog(h, i), 3)
        ELSE IF h = 1 /\ i = 2 /\ id = 3 THEN CutData(ChainLog(h, i), 32)
        ELSE ChainLog(h, i)]
LedgerLogs == [id \in LedgerIds |-> [h \in LedgerHeights |-> LogsAt(id, h)]]

\* The logs of blocks from..to, ascending by height, then by log index.
RECURSIVE LogsIn(_, _, _)
LogsIn(id, from, to) ==
    IF from > to THEN <<>>
    ELSE LogsIn(id, from, to - 1) \o
         (IF to \in LedgerHeights THEN LedgerLogs[id][to] ELSE <<>>)

\* What w3.eth.get_logs may do for the range: return the logs, raise
\* BlockNotFound, or raise another exception.  The ledger has no block of
\* negative height: a range that names one is not served.
Answers(id, from, to) ==
    { a \in { [kind |-> "logs", logs |-> LogsIn(id, from, to)],
              [kind |-> "BlockNotFound", logs |-> <<>>],
              [kind |-> "Exception", logs |-> <<>>] } :
        a.kind = "logs" => from >= 0 }

\* Chain heads the ledger reports, and the block heights of the model.
\* (The lowest head makes the initial cursor and the first range negative.)
Heads == (CONFIRMATIONS_REQUIRED - 1)..MaxHead
Heights == (0 - CONFIRMATIONS_REQUIRED - 1)..MaxHead
TxIds == { Hex(TxHash(h, i)) : h \in LedgerHeights, i \in 1..3 }

(***************************************************************************)
(* State.                                                                  *)
(***************************************************************************)
VARIABLES
    pc,                    \* position of main()
    config,                \* which required environment variables are set
    ledger,                \* the ledger the source node serves
    w3,                    \* source_connector.w3 is not None
    last_processed_block,  \* <<>> before line 286, then <<cursor>>
    latest_block,          \* locals of the loop body
    from_block,
    to_block,
    events,
    idx,                   \* position of `for event in events`
    slept,                 \* duration of the last time.sleep
    answer,                \* this cycle: <<kind of get_logs' answer>>, or <<>>
    queries,               \* this cycle: get_logs calls, with the head seen
    delivered,             \* this cycle: events passed to process_event
    failed,                \* this cycle: process_event calls that returned False
    ended,                 \* this cycle: how the try block ended
    attempts,              \* process_event calls per transaction hash
    covered,               \* per height, how many committed ranges hold it
    start_block,           \* <<last_processed_block + 1>> as of line 287
    retry_from,            \* from_block of a scan that hit BlockNotFound
    raises,                \* process_event calls that raised
    cycle_cursor,          \* last_processed_block when this iteration began
    initial_head,          \* <<what get_latest_block() returned at line 286>>
    test_log, test_parsed, \* _parse_log applied to a log
    test_range, test_answer, test_scan  \* scan_blocks applied to a range

vars == << pc, config, ledger, w3, last_processed_block, latest_block,
           from_block, to_block, events, idx, slept, answer, queries,
           delivered, failed, ended, attempts, covered, start_block, retry_from,
           raises, cycle_cursor, initial_head, test_log, test_parsed, test_range,
           test_answer,
           test_scan >>

loopVars == << pc, config, ledger, w3, last_processed_block, latest_block,
               from_block, to_block, events, idx, slept, answer, queries,
               delivered, failed, ended, attempts, covered, start_block, retry_from,
               raises, cycle_cursor, initial_head >>
testVars == << test_log, test_parsed, test_range, test_answer, test_scan >>

RequiredVars == { "SOURCE_CHAIN_RPC", "DESTINATION_CHAIN_RPC",
                  "BRIDGE_CONTRACT_ADDRESS", "PRIVATE_KEY" }

Cursor == last_processed_block[1]

(***************************************************************************)
(* The range and commit arithmetic of the loop body.                       *)
(***************************************************************************)
\* to_block = latest_block - config.CONFIRMATIONS_REQUIRED
ToBlock_head(latest) == latest
ToBlock(latest) == latest - CONFIRMATIONS_REQUIRED

\* from_block = last_processed_block + 1
FromBlock_overlap(last) == last
FromBlock(last) == last + 1

\* if from_block <= to_block:
ShouldScan_always(from, to) == TRUE
ShouldScan_upToNext(from, to) == from <= to + 1
ShouldScan_strict(from, to) == from < to
ShouldScan(from, to) == from <= to

\* last_processed_block = to_block, whatever the scan and the sink returned.
NextCursor_onlyWithEvents(last, to, evs) == IF evs = <<>> THEN last ELSE to
NextCursor_nextFrom(last, to, evs) == to + 1
NextCursor(last, to, evs) == to

\* Initial cursor: get_latest_block() - CONFIRMATIONS_REQUIRED - 1
InitialCursor(latest) == latest - CONFIRMATIONS_REQUIRED - 1

(***************************************************************************)
(* Initial state: main() is about to validate its configuration.  Locals   *)
(* not yet assigned hold 0 or <<>>; they are assigned before they are read.*)
(***************************************************************************)
LoopLocals ==
    /\ w3 = FALSE
    /\ last_processed_block = <<>>
    /\ latest_block = 0
    /\ from_block = 0
    /\ to_block = 0
    /\ events = <<>>
    /\ idx = 0
    /\ slept = 0
    /\ answer = <<>>
    /\ queries = <<>>
    /\ delivered = <<>>
    /\ failed = 0
    /\ ended = "none"
    /\ attempts = [t \in TxIds |-> 0]
    /\ covered = [h \in Heights |-> 0]
    /\ start_block = <<>>
    /\ retry_from = <<>>
    /\ raises = 0
    /\ cycle_cursor = <<>>
    /\ initial_head = <<>>

LoopInit ==
    /\ pc = "validate"
    /\ config \in [RequiredVars -> BOOLEAN]
    /\ ledger \in LedgerIds
    /\ LoopLocals

TestIdle ==
    /\ test_log = <<>>
    /\ test_parsed = <<>>
    /\ test_range = <<>>
    /\ test_answer = <<>>
    /\ test_scan = <<>>

Init == LoopInit /\ TestIdle

(***************************************************************************)
(* Startup of main().                                                      *)
(***************************************************************************)
\* config.validate(): every required variable is set.
Validates_rpcOnly(cfg) == cfg["SOURCE_CHAIN_RPC"] /\ cfg["DESTINATION_CHAIN_RPC"]
Validates(cfg) == \A v \in RequiredVars : cfg[v]

ValidateOk ==
    /\ pc = "validate"
    /\ Validates(config)
    /\ pc' = "connect"
    /\ UNCHANGED << config, ledger, w3, last_processed_block, latest_block,
                    from_block, to_block, events, idx, slept, answer, queries,
                    delivered, failed, ended, attempts, covered, start_block,
                    retry_from, raises, testVars,
                    cycle_cursor, initial_head >>

\* config.validate() raises ValueError: main() returns.
ValidateFail ==
    /\ pc = "validate"
    /\ ~Validates(config)
    /\ pc' = "exited"
    /\ UNCHANGED << config, ledger, w3, last_processed_block, latest_block,
                    from_block, to_block, events, idx, slept, answer, queries,
                    delivered, failed, ended, attempts, covered, start_block,
                    retry_from, raises, testVars,
                    cycle_cursor, initial_head >>

\* The connectors, the scanner and the processor are constructed.
ConnectOk ==
    /\ pc = "connect"
    /\ pc' = "init_cursor"
    /\ w3' = TRUE
    /\ UNCHANGED << config, ledger, last_processed_block, latest_block,
                    from_block, to_block, events, idx, slept, answer, queries,
                    delivered, failed, ended, attempts, covered, start_block,
                    retry_from, raises, testVars,
                    cycle_cursor, initial_head >>

\* A constructor raises: "Initialization failed", main() returns.
ConnectFail ==
    /\ pc = "connect"
    /\ pc' = "exited"
    /\ UNCHANGED << config, ledger, w3, last_processed_block, latest_block,
                    from_block, to_block, events, idx, slept, answer, queries,
                    delivered, failed, ended, attempts, covered, start_block,
                    retry_from, raises, testVars,
                    cycle_cursor, initial_head >>

\* last_processed_block = get_latest_block() - CONFIRMATIONS_REQUIRED - 1
InitCursor(head) ==
    /\ pc = "init_cursor"
    /\ pc' = "cycle"
    /\ last_processed_block' = << InitialCursor(head) >>
    /\ start_block' = << InitialCursor(head) + 1 >>
    /\ cycle_cursor' = << InitialCursor(head) >>
    /\ initial_head' = << head >>
    /\ UNCHANGED << config, ledger, w3, latest_block, from_block, to_block,
                    events, idx, slept, answer, queries, delivered, failed, ended,
                    attempts, covered, retry_from, raises, testVars >>

\* get_latest_block() raises: "Could not fetch initial block number".
InitCursorFail ==
    /\ pc = "init_cursor"
    /\ pc' = "exited"
    /\ UNCHANGED << config, ledger, w3, last_processed_block, latest_block,
                    from_block, to_block, events, idx, slept, answer, queries,
                    delivered, failed, ended, attempts, covered, start_block,
                    retry_from, raises, testVars,
                    cycle_cursor, initial_head >>

(***************************************************************************)
(* One cycle of `while True`.                                              *)
(***************************************************************************)
\* get_latest_block() returns head (reconnecting first when w3 is None);
\* the range is computed and compared.
ComputeRange(head) ==
    /\ pc = "cycle"
    /\ w3' = TRUE
    /\ latest_block' = head
    /\ to_block' = ToBlock(head)
    /\ from_block' = FromBlock(Cursor)
    /\ IF ShouldScan(FromBlock(Cursor), ToBlock(head))
       THEN pc' = "scan" /\ ended' = ended
       ELSE pc' = "sleep" /\ ended' = "nothing"
    /\ UNCHANGED << config, ledger, last_processed_block, events, idx, slept,
                    answer, queries, delivered, failed, attempts, covered,
                    start_block, retry_from, raises, testVars,
                    cycle_cursor, initial_head >>

\* get_latest_block() raises ConnectionError: the first handler.
HeadConnectionError ==
    /\ pc = "cycle"
    /\ pc' = "backoff"
    /\ ended' = "ConnectionError"
    /\ UNCHANGED << config, ledger, w3, last_processed_block, latest_block,
                    from_block, to_block, events, idx, slept, answer, queries,
                    delivered, failed, attempts, covered, start_block, retry_from,
                    raises, testVars,
                    cycle_cursor, initial_head >>

\* except Exception: the error is logged and control falls through to the
\* sleep that ends the iteration; the handler neither returns nor re-raises.
AfterException_shutdown == "exited"
AfterException == "sleep"

\* get_latest_block() raises another exception: the second handler.
HeadException ==
    /\ pc = "cycle"
    /\ pc' = AfterException
    /\ ended' = "Exception"
    /\ UNCHANGED << config, ledger, w3, last_processed_block, latest_block,
                    from_block, to_block, events, idx, slept, answer, queries,
                    delivered, failed, attempts, covered, start_block, retry_from,
                    raises, testVars,
                    cycle_cursor, initial_head >>

\* events = scanner.scan_blocks(from_block, to_block); `if events:`
Scan ==
    /\ pc = "scan"
    /\ \E a \in Answers(ledger, from_block, to_block) :
       \E r \in { ScanBlocks(from_block, to_block, a) } :
         /\ answer' = IF r.calls = <<>> THEN <<>> ELSE << a.kind >>
         /\ queries' = queries \o
                [i \in 1..Len(r.calls) |->
                    [fromBlock |-> r.calls[i].fromBlock,
                     toBlock   |-> r.calls[i].toBlock,
                     head      |-> latest_block]]
         /\ retry_from' = IF r.calls # <<>> /\ a.kind = "BlockNotFound"
                          THEN << from_block >> ELSE <<>>
         /\ IF r.raised # "none"
            THEN pc' = AfterException /\ ended' = "Exception"
                 /\ events' = events /\ idx' = idx
            ELSE /\ events' = r.events
                 /\ ended' = ended
                 /\ IF r.events # <<>>
                    THEN pc' = "process" /\ idx' = 1
                    ELSE pc' = "commit" /\ idx' = idx
    /\ UNCHANGED << config, ledger, w3, last_processed_block, latest_block,
                    from_block, to_block, slept, delivered, failed, attempts,
                    covered, start_block, raises, testVars,
                    cycle_cursor, initial_head >>

\* success = processor.process_event(event) returns True or False.
ProcessReturn(success) ==
    /\ pc = "process"
    /\ delivered' = Append(delivered, events[idx])
    /\ failed' = IF success THEN failed ELSE failed + 1
    /\ attempts' = [t \in TxIds |->
                      IF t = events[idx].transactionHash
                      THEN attempts[t] + 1 ELSE attempts[t]]
    /\ IF idx < Len(events)
       THEN idx' = idx + 1 /\ pc' = pc
       ELSE idx' = idx /\ pc' = "commit"
    /\ UNCHANGED << config, ledger, w3, last_processed_block, latest_block,
                    from_block, to_block, events, slept, answer, queries,
                    ended, covered, start_block, retry_from, raises,
                    testVars,
                    cycle_cursor, initial_head >>

\* process_event(event) raises (response.json() or price_data.get(...) on
\* an unexpected body): the second handler of the loop.
ProcessRaise ==
    /\ pc = "process"
    /\ raises < MaxRaises
    /\ raises' = raises + 1
    /\ delivered' = Append(delivered, events[idx])
    /\ attempts' = [t \in TxIds |->
                      IF t = events[idx].transactionHash
                      THEN attempts[t] + 1 ELSE attempts[t]]
    /\ pc' = AfterException
    /\ ended' = "Exception"
    /\ UNCHANGED << config, ledger, w3, last_processed_block, latest_block,
                    from_block, to_block, events, idx, slept, answer, queries,
                    failed, covered, start_block, retry_from, testVars,
                    cycle_cursor, initial_head >>

\* last_processed_block = to_block
Commit ==
    /\ pc = "commit"
    /\ last_processed_block' = << NextCursor(Cursor, to_block, events) >>
    /\ covered' = [h \in Heights |->
                     IF from_block <= h /\ h <= to_block
                     THEN covered[h] + 1 ELSE covered[h]]
    /\ pc' = "sleep"
    /\ ended' = "committed"
    /\ UNCHANGED << config, ledger, w3, latest_block, from_block, to_block,
                    events, idx, slept, answer, queries, delivered, failed, attempts,
                    start_block, retry_from, raises, testVars,
                    cycle_cursor, initial_head >>

\* except ConnectionError: time.sleep(POLL_INTERVAL_SECONDS * 2), entered
\* before the reconnect attempt and whatever that attempt will return.
BackoffDelay_pollOnly == POLL_INTERVAL_SECONDS
BackoffDelay == POLL_INTERVAL_SECONDS * 2

BackoffSleep ==
    /\ pc = "backoff"
    /\ slept' = BackoffDelay
    /\ pc' = "reconnect"
    /\ UNCHANGED << config, ledger, w3, last_processed_block, latest_block,
                    from_block, to_block, events, idx, answer, queries,
                    delivered, failed, ended, attempts, covered, start_block,
                    retry_from, raises, testVars,
                    cycle_cursor, initial_head >>

\* source_connector.connect() succeeds, or raises and leaves w3 = None.
Reconnect(ok) ==
    /\ pc = "reconnect"
    /\ w3' = ok
    /\ pc' = "sleep"
    /\ UNCHANGED << config, ledger, last_processed_block, latest_block,
                    from_block, to_block, events, idx, slept, answer, queries,
                    delivered, failed, ended, attempts, covered, start_block,
                    retry_from, raises, testVars,
                    cycle_cursor, initial_head >>

\* time.sleep(POLL_INTERVAL_SECONDS) at the end of the loop body; the next
\* iteration reassigns the locals before reading them.
Sleep ==
    /\ pc = "sleep"
    /\ slept' = POLL_INTERVAL_SECONDS
    /\ pc' = "cycle"
    /\ latest_block' = 0
    /\ from_block' = 0
    /\ to_block' = 0
    /\ events' = <<>>
    /\ idx' = 0
    /\ answer' = <<>>
    /\ queries' = <<>>
    /\ delivered' = <<>>
    /\ failed' = 0
    /\ ended' = "none"
    /\ cycle_cursor' = last_processed_block
    /\ UNCHANGED << config, ledger, w3, last_processed_block, attempts,
                    covered, start_block, retry_from, raises, testVars,
                    initial_head >>

Next ==
    \/ ValidateOk
    \/ ValidateFail
    \/ ConnectOk
    \/ ConnectFail
    \/ \E head \in Heads : InitCursor(head)
    \/ InitCursorFail
    \/ \E head \in Heads : ComputeRange(head)
    \/ HeadConnectionError
    \/ HeadException
    \/ Scan
    \/ \E success \in BOOLEAN : ProcessReturn(success)
    \/ ProcessRaise
    \/ Commit
    \/ BackoffSleep
    \/ \E ok \in BOOLEAN : Reconnect(ok)
    \/ Sleep

Spec == Init /\ [][Next]_vars

(***************************************************************************)
(* _parse_log applied to one log: synthetic logs built from a known tuple, *)
(* whole, or with fewer topics, or with a shorter or longer data payload.  *)
(***************************************************************************)
Tokens == { TokenA, TokenB }
Senders == { SenderA, SenderB }
Nonces == { 0, 42, 258 }
Amounts == { 0, 255, 1000000 }
ChainIds == { 1, 256 }
TopicCounts == 0..4
DataLens == { 0, 32, 63, 64, 96 }

SetDataLen(log, n) ==
    IF n <= Len(log.data) THEN CutData(log, n)
    ELSE [log EXCEPT !.data = log.data \o [i \in 1..(n - Len(log.data)) |-> 170]]

TestHash == TxHash(7, 1)
TestHeight == 1000 - CONFIRMATIONS_REQUIRED
TestLog(t, s, n, a, c, k, d) ==
    SetDataLen(CutTopics(MakeLog(t, s, n, a, c, TestHash, TestHeight), k), d)
TestLogs ==
    { TestLog(t, s, n, a, c, k, d) :
        t \in Tokens, s \in Senders, n \in Nonces, a \in Amounts,
        c \in ChainIds, k \in TopicCounts, d \in DataLens }

LoopIdle ==
    /\ pc = "test"
    /\ config = [v \in RequiredVars |-> TRUE]
    /\ LoopLocals

InitDecode ==
    /\ ledger = 1
    /\ LoopIdle
    /\ test_log \in { << l >> : l \in TestLogs }
    /\ test_parsed = <<>>
    /\ test_range = <<>>
    /\ test_answer = <<>>
    /\ test_scan = <<>>

DecodeCall ==
    /\ pc = "test"
    /\ test_log # <<>>
    /\ test_parsed = <<>>
    /\ test_parsed' = << ParseLog(test_log[1]) >>
    /\ UNCHANGED << loopVars, test_log, test_range, test_answer, test_scan >>

NextDecode == DecodeCall

SpecDecode == InitDecode /\ [][NextDecode]_vars

(***************************************************************************)
(* scan_blocks applied to one range, any order of its ends, against each   *)
(* ledger and each answer of get_logs.                                     *)
(***************************************************************************)
TestHeights == (0 - 1)..(MaxHead - CONFIRMATIONS_REQUIRED + 1)

InitScan ==
    /\ ledger \in LedgerIds
    /\ LoopIdle
    /\ test_log = <<>>
    /\ test_parsed = <<>>
    /\ \E f \in TestHeights, t \in TestHeights :
         /\ test_range = << f, t >>
         /\ test_answer \in { << a >> : a \in Answers(ledger, f, t) }
    /\ test_scan = <<>>

ScanCall ==
    /\ pc = "test"
    /\ test_range # <<>>
    /\ test_scan = <<>>
    /\ test_scan' = << ScanBlocks(test_range[1], test_range[2], test_answer[1]) >>
    /\ UNCHANGED << loopVars, test_log, test_parsed, test_range, test_answer >>

NextScan == ScanCall

SpecScan == InitScan /\ [][NextScan]_vars

(***************************************************************************)
(* Properties.                                                             *)
(***************************************************************************)

\* C1 (monotonic cursor): no step of the program lowers last_processed_block,
\* whatever head the ledger reports and whatever the log query and the sink
\* return or raise; so the cursor after a cycle is >= the cursor after the
\* cycle before it.
MonotonicCursor ==
    [][ (last_processed_block # <<>> /\ last_processed_block' # <<>>)
            => last_processed_block'[1] >= last_processed_block[1] ]_vars

\* A cycle that saw a head below an earlier one, after the cursor advanced.
MonotonicCursorWitness ==
    /\ pc = "sleep"
    /\ ended = "nothing"
    /\ Cursor >= start_block[1]
    /\ to_block < Cursor

\* C2 (transport failure does not advance the cursor): a cycle whose log
\* query failed with BlockNotFound ends with the cursor still at
\* from_block - 1, and the next scan starts at the same from_block.
TransportFailureKeepsCursor ==
    /\ (pc = "sleep" /\ answer = << "BlockNotFound" >>) => Cursor = from_block - 1
    /\ (pc = "scan" /\ retry_from # <<>>) => from_block = retry_from[1]

\* C3 (no gap, no overlap): every scan starts right after the cursor, and the
\* committed ranges hold every height from the first scanned height up to
\* the cursor exactly once and no other height.
NoGapNoOverlap ==
    last_processed_block # <<>> =>
        /\ pc \in { "scan", "process", "commit" } => from_block = Cursor + 1
        /\ \A h \in Heights :
             covered[h] = IF start_block[1] <= h /\ h <= Cursor THEN 1 ELSE 0

\* A second (or later) commit, of a range of several heights.
NoGapNoOverlapWitness ==
    /\ pc = "sleep"
    /\ ended = "committed"
    /\ start_block[1] < from_block
    /\ from_block < to_block

\* C4 (range safety): every log query issued has
\* toBlock <= head - CONFIRMATIONS_REQUIRED for the head read in its cycle,
\* so every block queried has at least CONFIRMATIONS_REQUIRED confirmations.
RangeSafety ==
    \A i \in 1..Len(queries) :
        /\ queries[i].toBlock <= queries[i].head - CONFIRMATIONS_REQUIRED
        /\ \A h \in queries[i].fromBlock..queries[i].toBlock :
             queries[i].head - h >= CONFIRMATIONS_REQUIRED

\* A query of several heights that reaches the last confirmed block.
RangeSafetyWitness ==
    /\ queries # <<>>
    /\ queries[1].fromBlock < queries[1].toBlock
    /\ queries[1].toBlock = queries[1].head - CONFIRMATIONS_REQUIRED

\* A log the decoder cannot decode, in the sense of the specification: fewer
\* than 4 topic slots or fewer than 64 bytes of data.
Truncated(log) == Len(log.topics) < 4 \/ Len(log.data) < 64

\* C5 (partial decode resilience): when get_logs returns a batch in which
\* exactly one log is truncated, scan_blocks returns the decoded events of
\* the other logs, in their order, and does not raise.
PartialDecodeResilience ==
    (/\ test_scan # <<>>
     /\ test_range[1] <= test_range[2]
     /\ test_answer[1].kind = "logs"
     /\ Cardinality({ i \in 1..Len(test_answer[1].logs) :
                        Truncated(test_answer[1].logs[i]) }) = 1)
    => /\ test_scan[1].raised = "none"
       /\ test_scan[1].events =
            ParseAll(SelectSeq(test_answer[1].logs, LAMBDA l : ~Truncated(l)))

AtMostOneAttempt == \A t \in TxIds : attempts[t] <= 1

\* C8 (empty-range no-op): scan_blocks(from_block, to_block) with
\* from_block > to_block returns the empty list and makes no get_logs call.
EmptyRangeNoOp ==
    (test_scan # <<>> /\ test_range[1] > test_range[2])
    => /\ test_scan[1].events = <<>>
       /\ test_scan[1].calls = <<>>
       /\ test_scan[1].raised = "none"

\* scan_blocks has returned for an inverted range.
EmptyRangeNoOpWitness ==
    /\ test_scan # <<>>
    /\ test_range[1] > test_range[2] + 1

\* C9 (truncated input is a decode error): _parse_log of a log with fewer
\* than 4 topics or fewer than 64 bytes of data fails and yields no event.
TruncatedIsDecodeError ==
    (test_parsed # <<>> /\ Truncated(test_log[1]))
    => /\ test_parsed[1].raised # "none"
       /\ test_parsed[1].value = <<>>

\* n as a string of len hex digits.
RECURSIVE IntToHex(_, _)
IntToHex(n, len) ==
    IF len = 0 THEN <<>> ELSE Append(IntToHex(n \div 16, len - 1), n % 16)

\* The synthetic log of each tuple, with the event it must decode to.
RoundTripCases ==
    { [log   |-> MakeLog(t, s, n, a, c, TestHash, TestHeight),
       event |-> [token              |-> t,
                  sender             |-> s,
                  nonce              |-> n,
                  amount             |-> a,
                  destinationChainId |-> c,
                  transactionHash    |-> IntToHex(16 * 7 + 1, 2 * HashLen),
                  blockNumber        |-> TestHeight]] :
        t \in Tokens, s \in Senders, n \in Nonces, a \in Amounts, c \in ChainIds }

\* C10 (decode round trip): the log built from a tuple (token, sender, nonce,
\* amount, destinationChainId) with the fixed topic and data layout decodes
\* to exactly that tuple, with the transaction hash and block height of the
\* log.
DecodeRoundTrip ==
    \A case \in RoundTripCases :
        (test_parsed # <<>> /\ test_log[1] = case.log)
        => test_parsed[1] = [raised |-> "none", value |-> << case.event >>]

\* _parse_log has decoded the synthetic log of one full tuple.
DecodeRoundTripWitness ==
    /\ test_parsed # <<>>
    /\ test_log[1] = MakeLog(TokenB, SenderA, 258, 1000000, 256, TestHash, TestHeight)
    /\ test_parsed[1].raised = "none"
    /\ test_parsed[1].value[1].amount = 1000000
    /\ test_parsed[1].value[1].destinationChainId = 256

(***************************************************************************)
(* Backoff after a connectivity error.                                     *)
(***************************************************************************)
\* End of an iteration whose try block ended in `except ConnectionError`;
\* w3 holds what the reconnect attempt of that handler left.
BackoffCycleOver == pc = "sleep" /\ ended = "ConnectionError"

\* C11 as stated: after a connectivity error a reconnect is attempted; if it
\* succeeds no wait of twice the poll interval is performed in that cycle,
\* and the doubled wait happens only if the reconnect fails.
BackoffOnlyAfterFailedReconnect ==
    BackoffCycleOver => (slept = POLL_INTERVAL_SECONDS * 2 <=> ~w3)

\* C11, amended: the wait of twice the poll interval comes first and is
\* unconditional; the reconnect attempt is made after it, and the cycle
\* ends with the doubled wait performed whether the reconnect succeeded or
\* failed.
BackoffBeforeReconnect ==
    /\ pc = "backoff" => ended = "ConnectionError"
    /\ pc = "reconnect" =>
          ended = "ConnectionError" /\ slept = POLL_INTERVAL_SECONDS * 2
    /\ BackoffCycleOver => slept = POLL_INTERVAL_SECONDS * 2

BackoffBeforeReconnectWitness ==
    BackoffCycleOver /\ w3 /\ slept = POLL_INTERVAL_SECONDS * 2

(***************************************************************************)
(* Initialization and the first cycle.                                     *)
(***************************************************************************)
\* get_latest_block() has returned in this iteration (line 296 is passed).
HeadObserved ==
    \/ pc \in { "scan", "process", "commit" }
    \/ pc = "sleep" /\ (ended \in { "nothing", "committed" } \/ queries # <<>>)

\* The first iteration of the loop, at its closing sleep, having observed
\* the head that initialised the cursor (no time.sleep has run yet).
FirstCycleOver ==
    /\ last_processed_block # <<>>
    /\ slept = 0
    /\ pc = "sleep"
    /\ HeadObserved
    /\ latest_block = initial_head[1]

\* The events of the well-formed logs of blocks from..to, in ledger order.
WellFormed(log) == ~Truncated(log)
DecodedEvents(id, from, to) == ParseAll(SelectSeq(LogsIn(id, from, to), WellFormed))

\* The ranges of this cycle's get_logs calls.
QueriedRanges == [i \in 1..Len(queries) |-> << queries[i].fromBlock, queries[i].toBlock >>]

\* C12 as stated: the cursor starts at head - confirmations - 1; a first
\* cycle that observes the same head scans exactly the one-height range
\* [head - confirmations, head - confirmations], passes exactly the decoded
\* events of that range to the sink and ends with cursor = head -
\* confirmations.
FirstCycleScansOneHeight ==
    FirstCycleOver =>
       /\ cycle_cursor = << latest_block - CONFIRMATIONS_REQUIRED - 1 >>
       /\ QueriedRanges = << << to_block, to_block >> >>
       /\ to_block = latest_block - CONFIRMATIONS_REQUIRED
       /\ delivered = DecodedEvents(ledger, to_block, to_block)
       /\ Cursor = latest_block - CONFIRMATIONS_REQUIRED

(***************************************************************************)
(* Startup with an incomplete configuration.                               *)
(***************************************************************************)
\* C13 (a configuration error is fatal before any work): when one of the
\* four required variables is missing, main() goes from validation straight
\* to its return: no connector is built, get_latest_block is never called,
\* no cursor is created, no log query is issued, the sink is never invoked
\* and no poll cycle (so no sleep) takes place.
ConfigErrorIsFatal ==
    (\E v \in RequiredVars : ~config[v]) =>
       /\ pc \in { "validate", "exited" }
       /\ ~w3
       /\ initial_head = <<>>
       /\ last_processed_block = <<>>
       /\ cycle_cursor = <<>>
       /\ latest_block = 0
       /\ queries = <<>>
       /\ delivered = <<>>
       /\ \A t \in TxIds : attempts[t] = 0
       /\ slept = 0
       /\ ended = "none"

ConfigErrorIsFatalWitness ==
    /\ pc = "exited"
    /\ ~config["PRIVATE_KEY"]
    /\ config["SOURCE_CHAIN_RPC"] /\ config["DESTINATION_CHAIN_RPC"]
    /\ last_processed_block = <<>>

(***************************************************************************)
(* Order of delivery.                                                      *)
(***************************************************************************)
\* A log _parse_log turns into an event, and the events of the logs get_logs
\* returned for from..to, each decoded by _parse_log, in the order returned.
Decodable(log) == ParseLog(log).raised = "none"
ReturnedDecoded(id, from, to) == ParseAll(SelectSeq(LogsIn(id, from, to), Decodable))

\* C14 (order preservation): in every cycle whose query returned logs, the
\* events handed to process_event are the returned logs, decoded, in the
\* order in which get_logs returned them: at any moment a prefix of that
\* sequence, one call after the other, and the whole sequence once the
\* cycle commits.
OrderPreservation ==
    answer = << "logs" >> =>
       \E decoded \in { ReturnedDecoded(ledger, from_block, to_block) } :
          /\ Len(delivered) <= Len(decoded)
          /\ delivered = SubSeq(decoded, 1, Len(delivered))
          /\ pc = "process" => Len(delivered) = idx - 1
          /\ ended = "committed" => delivered = decoded

(***************************************************************************)
(* Cycles with nothing to scan.                                            *)
(***************************************************************************)
\* C15 (nothing-to-scan cycle): a cycle that observes a head with
\* cursor + 1 > head - confirmations goes straight to its closing sleep
\* ("No new blocks to process"): the cursor keeps its start-of-cycle value,
\* no get_logs query is issued and process_event is not called.
NothingToScan ==
    (HeadObserved /\ cycle_cursor[1] + 1 > latest_block - CONFIRMATIONS_REQUIRED) =>
       /\ pc = "sleep"
       /\ ended = "nothing"
       /\ last_processed_block = cycle_cursor
       /\ queries = <<>>
       /\ events = <<>>
       /\ delivered = <<>>

NothingToScanWitness ==
    /\ HeadObserved
    /\ cycle_cursor[1] + 1 > latest_block - CONFIRMATIONS_REQUIRED
    /\ pc = "sleep"
    /\ Cursor >= start_block[1]

(***************************************************************************)
(* Errors inside the loop.                                                 *)
(***************************************************************************)
\* The try block of this iteration ended in one of the two handlers.
CycleFailed == ended \in { "ConnectionError", "Exception" }

\* C16 (fail into the next iteration): once the loop has started (the
\* cursor exists), main() never reaches its return; an iteration whose try
\* block raised is in one of the handlers or at the closing sleep with the
\* cursor at its start-of-cycle value, and a further step of the loop,
\* ending in the next iteration, is always possible.
FailIntoNextIteration ==
    /\ last_processed_block # <<>> =>
          /\ pc \in { "cycle", "scan", "process", "commit",
                      "backoff", "reconnect", "sleep" }
          /\ ENABLED Next
    /\ CycleFailed =>
          /\ pc \in { "backoff", "reconnect", "sleep" }
          /\ last_processed_block = cycle_cursor
    /\ pc = "sleep" => ENABLED Sleep

FailIntoNextIterationWitness ==
    /\ pc = "sleep"
    /\ ended = "Exception"
    /\ delivered # <<>>
    /\ Cursor >= start_block[1]

(***************************************************************************)
(* scan_blocks and failing queries.                                        *)
(***************************************************************************)
\* C17 (scan never raises on query failure): for from_block <= to_block,
\* when get_logs raises BlockNotFound or any other exception, scan_blocks
\* has issued that one query, returns the empty list, and no exception
\* reaches its caller.
ScanNeverRaises ==
    (/\ test_scan # <<>>
     /\ test_range[1] <= test_range[2]
     /\ test_answer[1].kind \in { "BlockNotFound", "Exception" })
    => /\ test_scan[1].raised = "none"
       /\ test_scan[1].events = <<>>
       /\ test_scan[1].calls =
             << [fromBlock |-> test_range[1], toBlock |-> test_range[2]] >>

ScanNeverRaisesWitness ==
    /\ test_scan # <<>>
    /\ test_range[1] < test_range[2]
    /\ test_answer[1].kind = "Exception"
    /\ test_scan[1].events = <<>>

(***************************************************************************)
(* The cursor and the confirmed head.                                      *)
(***************************************************************************)
\* C18 (cursor bounded by the confirmed head): a cycle that has changed the
\* cursor observed a head and leaves the cursor at most at that head minus
\* the confirmations; a cycle whose head minus the confirmations is not
\* above the cursor does not change it.
CursorBoundedByConfirmedHead ==
    /\ (last_processed_block # <<>> /\ last_processed_block # cycle_cursor) =>
          /\ HeadObserved
          /\ Cursor <= latest_block - CONFIRMATIONS_REQUIRED
    /\ (HeadObserved /\ latest_block - CONFIRMATIONS_REQUIRED <= cycle_cursor[1]) =>
          last_processed_block = cycle_cursor

CursorBoundedByConfirmedHeadWitness ==
    /\ pc = "sleep"
    /\ last_processed_block # cycle_cursor
    /\ Cursor = latest_block - CONFIRMATIONS_REQUIRED
    /\ cycle_cursor[1] >= start_block[1]

(***************************************************************************)
(* Heights handed to get_logs.                                             *)
(***************************************************************************)
\* C19 (heights stay valid): for every initial head, also one below
\* confirmations + 1, every get_logs query of the loop has
\* 0 <= fromBlock <= toBlock.
HeightsStayValid ==
    \A i \in 1..Len(queries) :
        /\ 0 <= queries[i].fromBlock
        /\ queries[i].fromBlock <= queries[i].toBlock

(***************************************************************************)
(* Progress.  main() is one sequential thread: every call it makes returns *)
(* or raises and every time.sleep returns, so a step that is possible is   *)
(* eventually taken.  Control never reads the bytes of a log's data, in   *)
(* which alone ledger 3 differs from ledger 1, so ledgers 1 and 2 stand   *)
(* for all three here.                                                     *)
(***************************************************************************)
FairLedgers == { id \in LedgerIds : id # 3 }
InitFair == Init /\ ledger \in FairLedgers
FairSpec == InitFair /\ [][Next]_vars /\ WF_vars(Next)

\* A step of a quiet period for head H: get_latest_block(), when it is
\* called, returns a head of at least H, and no handler is entered or
\* still running.
QuietStep(H) ==
    /\ ended' \notin { "ConnectionError", "Exception" }
    /\ (pc = "cycle" /\ pc' # "cycle") => latest_block' >= H

\* The cursor exists and has reached H - confirmations.
Caught(H) ==
    /\ last_processed_block # <<>>
    /\ Cursor >= H - CONFIRMATIONS_REQUIRED

\* C20 (progress): under fair scheduling of the loop, if from some point
\* on get_latest_block() always succeeds with a head of at least H and no
\* error is raised inside a cycle, then eventually the cursor is at least
\* H - confirmations (for a main() whose startup did not end in a return).
Progress ==
    \A H \in Heads :
        (<>[][QuietStep(H)]_vars) => <>(pc = "exited" \/ Caught(H))

ProgressWitness ==
    /\ Caught(MaxHead)
    /\ cycle_cursor[1] < MaxHead - CONFIRMATIONS_REQUIRED
    /\ ended = "committed"

====
